---------------------------- MODULE Spec2Model ----------------------------
(***************************************************************************)
(* Model of src/lib/superValidate.ts of sveltekit-superforms:              *)
(* superValidate, message and setError acting on a SuperValidated form.    *)
(*                                                                         *)
(* JavaScript values are tagged records (field k is the tag).  A string is *)
(* the sequence of its characters, so that splitPath can be computed; an   *)
(* object is a function from its keys to values; an array has its items    *)
(* and, being an object, its own extra properties.                         *)
(***************************************************************************)
EXTENDS Integers, Sequences, FiniteSets, TLC

VARIABLES
    form,   \* the SuperValidated object the server code holds
    ret,    \* what the last call of message / setError returned (or that it threw)
    call,   \* the last call: its operation and its arguments
    sv,     \* the last superValidate call: inputs and intermediate values
    form0,  \* history: the form as superValidate returned it
    log,    \* history: per addressed error location, what setError calls asked for
    calls   \* number of message / setError calls made on the form

vars == <<form, ret, call, sv, form0, log, calls>>

---------------------------------------------------------------------------
(* Bounds of the model *)

\* message and setError calls made on one form
MaxCalls == 2

---------------------------------------------------------------------------
(* JavaScript values *)

NoProps == [z \in {} |-> 0]

Undefined == [k |-> "undefined"]
Null == [k |-> "null"]
Str(s) == [k |-> "string", s |-> s]
Obj(props) == [k |-> "object", props |-> props]
Arr(items, props) == [k |-> "array", items |-> items, props |-> props]
EmptyObj == Obj(NoProps)

\* The array literal [s1, ..., sn] of strings
StrArr(ss) == Arr([i \in 1..Len(ss) |-> Str(ss[i])], NoProps)

Truthy(v) ==
    CASE v.k = "undefined" -> FALSE
      [] v.k = "null" -> FALSE
      [] v.k = "string" -> v.s # <<>>
      [] OTHER -> TRUE

IsArray(v) == v.k = "array"

\* The only array index the model's paths use
Index0 == "0"

\* v[key], for a v that is neither undefined nor null
Get(v, key) ==
    CASE v.k = "string" ->
            IF key = Index0 /\ Len(v.s) >= 1 THEN Str(<<v.s[1]>>) ELSE Undefined
      [] v.k = "array" ->
            IF key = Index0 /\ Len(v.items) >= 1 THEN v.items[1]
            ELSE IF key \in DOMAIN v.props THEN v.props[key] ELSE Undefined
      [] v.k = "object" ->
            IF key \in DOMAIN v.props THEN v.props[key] ELSE Undefined
      [] OTHER -> Undefined

\* Whether the assignment v[key] = x throws: the module is strict-mode code, where
\* creating a property on a primitive string is a TypeError
SetThrows(v) == v.k \notin {"object", "array"}

WithProp(props, key, x) ==
    [z \in DOMAIN props \cup {key} |-> IF z = key THEN x ELSE props[z]]

\* v after the assignment v[key] = x, for an object or array v
Set(v, key, x) ==
    CASE v.k = "array" ->
            IF key = Index0
                THEN [v EXCEPT !.items =
                        IF Len(v.items) >= 1
                            THEN [v.items EXCEPT ![1] = x]
                            ELSE <<x>>]
                ELSE [v EXCEPT !.props = WithProp(v.props, key, x)]
      [] v.k = "object" -> [v EXCEPT !.props = WithProp(v.props, key, x)]
      [] OTHER -> v

\* a.concat(b) of two arrays: a new array, without a's extra properties
Concat(a, b) == Arr(a.items \o b.items, NoProps)


---------------------------------------------------------------------------
(* Paths: splitPath and traversePath *)

Separators == {"[", "]", "."}

\* The keys of path string s that follow the key begun as cur
RECURSIVE SplitFrom(_, _)
SplitFrom(s, cur) ==
    IF s = <<>>
        THEN IF cur = "" THEN <<>> ELSE <<cur>>
        ELSE IF Head(s) \in Separators
            THEN (IF cur = "" THEN <<>> ELSE <<cur>>) \o SplitFrom(Tail(s), "")
            ELSE SplitFrom(Tail(s), cur \o Head(s))

\* path.toString().split(/[[\].]+/).filter((p) => p)
splitPath(s) == SplitFrom(s, "")

\* setError's modifier, called by traversePath on every key before the last:
\* a missing node becomes {} ; the node is handed back
Modifier(parent, key) ==
    IF Get(parent, key).k = "undefined"
        THEN IF SetThrows(parent)
            THEN [throws |-> TRUE, parent |-> parent, value |-> Undefined]
            ELSE [throws |-> FALSE, parent |-> Set(parent, key, EmptyObj),
                  value |-> EmptyObj]
        ELSE [throws |-> FALSE, parent |-> parent, value |-> Get(parent, key)]

\* parent with the object it holds at key replaced by the same object as the
\* traversal below it left it (objects are shared by reference)
PutBack(parent, key, child) ==
    IF SetThrows(parent) THEN parent ELSE Set(parent, key, child)

\* traversePath(obj, realPath, modifier): walks the keys, the modifier deciding
\* each step, and describes the last key's place.  status is "leaf" (found),
\* "none" (undefined is returned) or "throw"; obj is the tree as the modifier
\* left it.
RECURSIVE traversePath(_, _)
traversePath(obj, realPath) ==
    IF realPath = <<>> THEN [status |-> "none", obj |-> obj]
    ELSE IF Len(realPath) = 1
        THEN [status |-> "leaf", obj |-> obj, parent |-> obj,
              key |-> realPath[1], value |-> Get(obj, realPath[1])]
        ELSE LET m == Modifier(obj, Head(realPath)) IN
            IF m.throws THEN [status |-> "throw", obj |-> obj]
            ELSE IF ~Truthy(m.value) THEN [status |-> "none", obj |-> m.parent]
            ELSE LET r == traversePath(m.value, Tail(realPath)) IN
                [r EXCEPT !.obj = PutBack(m.parent, Head(realPath), r.obj)]

\* obj after the assignment leaf.parent[leaf.key] = x, the leaf being the one
\* traversePath found at realPath
RECURSIVE AssignLeaf(_, _, _)
AssignLeaf(obj, realPath, x) ==
    IF Len(realPath) = 1
        THEN Set(obj, realPath[1], x)
        ELSE PutBack(obj, Head(realPath),
                     AssignLeaf(Get(obj, Head(realPath)), Tail(realPath), x))

\* The value stored in tree obj at the keys of realPath (undefined when the
\* way there is missing)
RECURSIVE Lookup(_, _)
Lookup(obj, realPath) ==
    IF realPath = <<>> THEN obj
    ELSE IF obj.k \in {"undefined", "null"} THEN Undefined
    ELSE Lookup(Get(obj, Head(realPath)), Tail(realPath))

---------------------------------------------------------------------------
(* The form, options, and what a call returns *)

\* An absent optional value is <<>>, a given one <<value>>
Absent == <<>>
Given(x) == <<x>>

\* A value of form.data that is a File
File == "file"

\* options?.status: <<>> when absent, <<n>> when given
NoStatus == <<>>
\* The status fail() gets when options give none (options.status ?? 400)
DefaultStatus == 400

\* An options object.  overwrite FALSE stands for false or absent, removeFiles
\* TRUE for true or absent: the code only tests options.overwrite for truth and
\* options.removeFiles for being false.
Options(overwrite, status, remove) ==
    [k |-> "options", overwrite |-> overwrite, status |-> status,
     removeFiles |-> remove]

NoOptions == Options(FALSE, NoStatus, TRUE)

\* removeFiles(obj) for the object {form}: every File-valued property is deleted,
\* recursively.  Files live in form.data only.
removeFiles(f) ==
    [f EXCEPT !.data = [key \in {z \in DOMAIN f.data : f.data[z] # File} |-> f.data[key]]]

\* fail(status, {form})
realFail(status, f) == [kind |-> "failure", status |-> status, form |-> f]

\* failAndRemoveFiles(status, {form})
failAndRemoveFiles(status, f) == realFail(status, removeFiles(f))

\* What a call that threw leaves behind: no return value
Threw == [kind |-> "throw"]

NoRet == [kind |-> "none"]

\* options?.status ?? 400
StatusOr400(options) ==
    IF options.k = "options" /\ options.status # NoStatus
        THEN options.status[1]
        ELSE DefaultStatus

---------------------------------------------------------------------------
(* message(form, message, options?) *)

\* form.valid after "if (options?.status && options.status >= 400) form.valid = false"
MessageValid_NeverInvalidates(f, options) == f.valid

MessageValid(f, options) ==
    IF /\ options.k = "options"
       /\ options.status # NoStatus
       /\ options.status[1] # 0
       /\ options.status[1] >= 400
        THEN FALSE
        ELSE f.valid

\* The return value of message for the form f as message has set it
MessageReturn(f, options) ==
    LET remove == ~(options.k = "options" /\ options.removeFiles = FALSE) IN
    IF f.valid
        THEN [kind |-> "plain", form |-> IF remove THEN removeFiles(f) ELSE f]
        ELSE IF remove
            THEN failAndRemoveFiles(StatusOr400(options), f)
            ELSE realFail(StatusOr400(options), f)

\* message: the form and the return value
message(f, msg, options) ==
    LET f1 == [f EXCEPT !.valid = MessageValid(f, options), !.message = Given(msg)]
        r == MessageReturn(f1, options)
    IN [form |-> r.form, ret |-> r]

---------------------------------------------------------------------------
(* setError(form, path, error, options?) and setError(form, error, options?) *)

ErrorsKey == "_errors"

\* The characters of array.toString() for an array of strings
RECURSIVE JoinItems(_)
JoinItems(items) ==
    IF items = <<>> THEN <<>>
    ELSE IF Len(items) = 1 THEN Head(items).s
    ELSE Head(items).s \o <<",">> \o JoinItems(Tail(items))

\* "Unify signatures": the call passed no path when its third argument is no error
NoPathGiven(a3) ==
    a3.k \in {"undefined", "null"} \/ (a3.k # "string" /\ ~IsArray(a3))

\* Array.isArray(error) ? error : [error]
ErrArr(error) == IF IsArray(error) THEN error ELSE Arr(<<error>>, NoProps)

\* form.errors._errors = options.overwrite ? errArr : form.errors._errors.concat(errArr)
\* for the truthy value cur of form.errors._errors that has a concat method
FormLevelValue(cur, errArr, overwrite) ==
    IF overwrite THEN errArr
    ELSE IF IsArray(cur) THEN Concat(cur, errArr)
    ELSE Str(cur.s \o JoinItems(errArr.items))

\* Array.isArray(leaf.value) && !options.overwrite ? leaf.value.concat(errArr) : errArr
LeafValue_AlwaysReplace(value, errArr, overwrite) == errArr

LeafValue(value, errArr, overwrite) ==
    IF IsArray(value) /\ ~overwrite THEN Concat(value, errArr) ELSE errArr

\* form.valid = false
Invalidate_Forgotten(f) == f

Invalidate(f) == [f EXCEPT !.valid = FALSE]

\* func(options.status ?? 400, { form })
SetErrorReturn(f, options) ==
    IF options.removeFiles = FALSE
        THEN realFail(StatusOr400(options), f)
        ELSE failAndRemoveFiles(StatusOr400(options), f)

\* The error tree after the form-level branch, or that it threw
SetFormLevel(errors, errArr, options) ==
    LET e1 == Get(errors, ErrorsKey)
        cur == IF Truthy(e1) THEN e1 ELSE Arr(<<>>, NoProps)
        errors1 == IF Truthy(e1) THEN errors ELSE Set(errors, ErrorsKey, cur)
    IN  IF options.k = "null" \/ (~options.overwrite /\ cur.k \notin {"array", "string"})
            THEN [throws |-> TRUE, errors |-> errors1]
            ELSE [throws |-> FALSE,
                  errors |-> Set(errors1, ErrorsKey,
                                 FormLevelValue(cur, errArr, options.overwrite))]

\* The error tree after the branch for a field path, or that it threw
SetAtPath(errors, path, errArr, options) ==
    LET realPath == splitPath(path.s)
        leaf == traversePath(errors, realPath)
    IN  CASE leaf.status = "throw" -> [throws |-> TRUE, errors |-> leaf.obj]
          [] leaf.status = "none" -> [throws |-> FALSE, errors |-> leaf.obj]
          [] OTHER ->
                IF \/ (IsArray(leaf.value) /\ options.k = "null")
                   \/ SetThrows(leaf.parent)
                    THEN [throws |-> TRUE, errors |-> leaf.obj]
                    ELSE [throws |-> FALSE,
                          errors |-> AssignLeaf(leaf.obj, realPath,
                                        LeafValue(leaf.value, errArr,
                                                  options.k # "null" /\ options.overwrite))]

\* setError: the form as the call leaves it, what it returns, and the error
\* location it addressed (loc, the keys from form.errors; <<>> when the path
\* holds no key)
setError(f, a2, a3, a4) ==
    LET unify == NoPathGiven(a3)
        options0 == IF unify THEN a3 ELSE a4
        error == IF unify THEN a2 ELSE a3
        path == IF unify THEN Str(<<>>) ELSE a2
        options == IF options0.k = "undefined" THEN NoOptions ELSE options0
        errArr == ErrArr(error)
        errors0 == IF Truthy(f.errors) THEN f.errors ELSE EmptyObj
        formLevel == path.k = "null" \/ path = Str(<<>>)
        step == IF formLevel
                    THEN SetFormLevel(errors0, errArr, options)
                    ELSE SetAtPath(errors0, path, errArr, options)
        f1 == [f EXCEPT !.errors = step.errors]
        f2 == Invalidate(f1)
        loc == IF formLevel THEN <<ErrorsKey>> ELSE splitPath(path.s)
        info == [loc |-> loc, errs |-> errArr.items,
                 overwrite |-> options.k = "options" /\ options.overwrite]
    IN  IF step.throws THEN [form |-> f1, ret |-> Threw, info |-> info]
        ELSE IF options.k = "null" THEN [form |-> f2, ret |-> Threw, info |-> info]
        ELSE LET r == SetErrorReturn(f2, options)
             IN [form |-> r.form, ret |-> r, info |-> info]

---------------------------------------------------------------------------
(* superValidate and the functions it calls *)

\* Records of the data are functions from top-level keys to values: "d" a
\* default value, "v" a posted value of the right type, "w" a posted value of
\* the wrong type, File an uploaded file.
KeysOf(rec) == DOMAIN rec

\* parseRequest(data, jsonSchema, options): {id, data, posted}.  FormData is
\* posted; URL parameters and plain data are not; anything else is handed on.
parseRequest(data) ==
    CASE data.k = "formdata" ->
            [id |-> data.id, data |-> Obj(data.fields), posted |-> TRUE]
      [] data.k = "url" ->
            [id |-> data.id, data |-> Obj(data.fields), posted |-> FALSE]
      [] data.k = "object" ->
            [id |-> Absent, data |-> Obj(data.fields), posted |-> FALSE]
      [] OTHER -> [id |-> Absent, data |-> data, posted |-> FALSE]

\* mergeDefaults(parsedData, defaults): the defaults, overridden by the parsed data
mergeDefaults(parsedData, defaults) ==
    IF ~Truthy(parsedData) THEN defaults
    ELSE [key \in KeysOf(defaults) \cup KeysOf(parsedData.props) |->
            IF key \in KeysOf(parsedData.props)
                THEN parsedData.props[key]
                ELSE defaults[key]]

\* replaceInvalidDefaults(data, defaults, jsonSchema, issues, preprocessed):
\* a value of the wrong type is replaced by the default of its key
replaceInvalidDefaults(data, defaults) ==
    [key \in KeysOf(data) |->
        IF data[key] = "w" /\ key \in KeysOf(defaults)
            THEN defaults[key]
            ELSE data[key]]

\* The error tree with message added under the keys of path, as mapErrors adds
\* one issue: form-level without a path, under _errors for a key whose schema
\* shape is an object or array, and on the field otherwise
MapIssue(errors, issue, shape) ==
    LET msg == StrArr(<<issue.message>>)
        objectError == Len(issue.path) = 1 /\ issue.path[1] \in shape
        realPath == IF issue.path = <<>> THEN <<ErrorsKey>>
                    ELSE IF objectError THEN issue.path \o <<ErrorsKey>>
                    ELSE issue.path
        leaf == traversePath(errors, realPath)
    IN  AssignLeaf(leaf.obj, realPath,
                   IF IsArray(leaf.value) THEN Concat(leaf.value, msg) ELSE msg)

\* mapErrors(issues, shape)
RECURSIVE MapFrom(_, _, _)
MapFrom(errors, issues, shape) ==
    IF issues = <<>> THEN errors
    ELSE MapFrom(MapIssue(errors, Head(issues), shape), Tail(issues), shape)

mapErrors(issues, shape) == MapFrom(EmptyObj, issues, shape)

\* A SuperValidateOptions object: errors, defaults and id are absent or given;
\* strict FALSE stands for false or absent
SVOptions(errors, strict, defaults, id) ==
    [k |-> "svoptions", errors |-> errors, strict |-> strict,
     defaults |-> defaults, id |-> id]

\* A validation adapter: closed says jsonSchema.additionalProperties === false,
\* properties is absent or the keys of jsonSchema.properties, shape the keys
\* whose schema shape is an object or array
Adapter(defaults, closed, properties, shape, id) ==
    [k |-> "adapter", defaults |-> defaults,
     jsonSchema |-> [closed |-> closed, properties |-> properties],
     shape |-> shape, id |-> id]

\* options?.strict
IsStrict(options) == options.k = "svoptions" /\ options.strict

\* The arguments as the overloads leave them: called with the adapter first, the
\* second argument is the options and there is no data
UnifyArgs(a1, a2, a3) ==
    IF a1.k = "adapter"
        THEN [data |-> Undefined, adapter |-> a1, options |-> a2]
        ELSE [data |-> a1, adapter |-> a2, options |-> a3]

\* options?.defaults ?? validator.defaults
DefaultsOf(options, validator) ==
    IF options.k = "svoptions" /\ options.defaults # Absent
        THEN options.defaults[1]
        ELSE validator.defaults

\* options?.errors ?? (options?.strict ? true : !!parsed.data)
AddErrors_Always(options, parsed) == TRUE

AddErrors(options, parsed) ==
    IF options.k = "svoptions" /\ options.errors # Absent
        THEN options.errors[1]
        ELSE IF IsStrict(options) THEN TRUE ELSE Truthy(parsed.data)

\* options?.strict ? parsed.data ?? {} : mergeDefaults(parsed.data, defaults)
ParsedData(options, parsed, defaults) ==
    IF IsStrict(options)
        THEN IF parsed.data.k \in {"undefined", "null"} THEN NoProps
             ELSE parsed.data.props
        ELSE mergeDefaults(parsed.data, defaults)

\* !!parsed.data || addErrors
ShouldValidate(parsed, addErrors) == Truthy(parsed.data) \/ addErrors

\* What the adapter's validate answers for parsedData, outcome being its
\* verdict: the data (of the keys it keeps) or the issues
Validate(parsedData, outcome) ==
    IF outcome.success
        THEN [success |-> TRUE, issues |-> <<>>,
              data |-> [key \in KeysOf(parsedData) \cap outcome.keep |-> parsedData[key]]]
        ELSE [success |-> FALSE, issues |-> outcome.issues, data |-> NoProps]

\* status when validate is not called: { success: false, issues: [] }
NotValidated == [success |-> FALSE, issues |-> <<>>, data |-> NoProps]

\* valid || !addErrors ? {} : mapErrors(status.issues, validator.shape)
Errors_IgnoreAddErrors(valid, addErrors, issues, shape) ==
    IF valid THEN EmptyObj ELSE mapErrors(issues, shape)

Errors(valid, addErrors, issues, shape) ==
    IF valid \/ ~addErrors THEN EmptyObj ELSE mapErrors(issues, shape)

\* valid ? status.data : replaceInvalidDefaults(
\*     options?.strict ? mergeDefaults(parsedData, defaults) : parsedData, defaults, ...)
DataWithDefaults_StrictUnmerged(status, options, parsedData, defaults) ==
    IF status.success THEN status.data
    ELSE replaceInvalidDefaults(parsedData, defaults)

DataWithDefaults(status, options, parsedData, defaults) ==
    IF status.success THEN status.data
    ELSE replaceInvalidDefaults(
            IF IsStrict(options)
                THEN mergeDefaults(Obj(parsedData), defaults)
                ELSE parsedData,
            defaults)

\* The keys of jsonSchema.properties ?? {}
PropertyKeys(jsonSchema) ==
    IF jsonSchema.properties = Absent THEN {} ELSE jsonSchema.properties[1]

\* outputData: with additionalProperties === false, only the keys of the
\* schema's properties are kept
OutputData(jsonSchema, dataWithDefaults) ==
    IF jsonSchema.closed
        THEN [key \in PropertyKeys(jsonSchema) \cap KeysOf(dataWithDefaults) |->
                dataWithDefaults[key]]
        ELSE dataWithDefaults

\* parsed.id ?? options?.id ?? validator.id
IdOf(parsed, options, validator) ==
    IF parsed.id # Absent THEN parsed.id[1]
    ELSE IF options.k = "svoptions" /\ options.id # Absent THEN options.id[1]
    ELSE validator.id

\* superValidate(a1, a2, a3), outcome being what the adapter's validate would
\* answer: the intermediate values and the form returned
superValidate(a1, a2, a3, outcome) ==
    LET args == UnifyArgs(a1, a2, a3)
        validator == args.adapter
        options == args.options
        defaults == DefaultsOf(options, validator)
        parsed == parseRequest(args.data)
        addErrors == AddErrors(options, parsed)
        parsedData == ParsedData(options, parsed, defaults)
        validated == ShouldValidate(parsed, addErrors)
        status == IF validated THEN Validate(parsedData, outcome) ELSE NotValidated
        valid == status.success
        errors == Errors(valid, addErrors, status.issues, validator.shape)
        dataWithDefaults == DataWithDefaults(status, options, parsedData, defaults)
        outputData == OutputData(validator.jsonSchema, dataWithDefaults)
    IN  [called |-> TRUE, data |-> args.data, validator |-> validator,
         options |-> options, defaults |-> defaults, parsed |-> parsed,
         addErrors |-> addErrors, validated |-> validated, status |-> status,
         form |-> [id |-> IdOf(parsed, options, validator),
                   valid |-> valid,
                   posted |-> parsed.posted,
                   errors |-> errors,
                   data |-> outputData,
                   message |-> Absent]]

---------------------------------------------------------------------------
(* Inputs *)

\* Path strings, as their characters
PathEmpty == <<>>
PathA == <<"a">>
PathAB == <<"a", ".", "b">>
PathA0 == <<"a", "[", "0", "]">>
PathA0B == <<"a", "[", "0", "]", ".", "b">>
PathErrors == <<"_", "e", "r", "r", "o", "r", "s">>
PathDot == <<".">>

\* The path arguments of setError: strings, and null
PathArgs ==
    {Str(p) : p \in {PathEmpty, PathA, PathAB, PathA0, PathA0B,
                     PathErrors, PathDot}} \cup {Null}

\* The error arguments of setError: a string, an array of strings
ErrorArgs == {Str(<<"x">>), StrArr(<<<<"y">>>>)}

Statuses == {NoStatus, Given(200), Given(500)}

SetErrorStatuses == {NoStatus, Given(500)}

\* The options arguments of setError
SetErrorOptionArgs ==
    {Undefined, Null} \cup
    {Options(ow, st, rm) : ow \in BOOLEAN, st \in SetErrorStatuses, rm \in BOOLEAN}

\* The options arguments of message
MessageOptionArgs ==
    {Undefined} \cup
    {Options(FALSE, st, rm) : st \in Statuses \cup {Given(400)}, rm \in BOOLEAN}

Messages == {"saved", "failed"}

FieldKeys == {"a", "b"}

\* Defaults objects
DefaultsA == [key \in {"a"} |-> "d"]
DefaultsAB == [key \in {"a", "b"} |-> "d"]

\* Adapters: the defaults are those of the schema's properties; a schema may
\* list no properties at all
Adapters ==
    {Adapter(df, closed, IF df = NoProps THEN Absent ELSE Given(KeysOf(df)),
             shape, "vid") :
        df \in {NoProps, DefaultsA, DefaultsAB}, closed \in BOOLEAN,
        shape \in {{}, {"a"}}}

SVOptionArgs ==
    {Undefined} \cup
    {SVOptions(errors, strict, df, id) :
        errors \in {Absent, Given(TRUE), Given(FALSE)}, strict \in BOOLEAN,
        df \in {Absent, Given(DefaultsAB)}, id \in {Absent, Given("oid")}}

\* Records a request or a caller can carry
FieldRecords ==
    {NoProps, [key \in {"a"} |-> "v"], [key \in {"a"} |-> "w"],
     [key \in {"a", "b"} |-> IF key = "a" THEN "v" ELSE File]}

DataArgs ==
    {Undefined, Null} \cup
    {[k |-> "object", fields |-> fs] : fs \in FieldRecords} \cup
    {[k |-> kind, fields |-> fs, id |-> id] :
        kind \in {"formdata", "url"}, fs \in FieldRecords,
        id \in {Absent, Given("pid")}}

Issue(path, text) == [path |-> path, message |-> text]

\* What an adapter's validate may answer
Outcomes ==
    {[success |-> TRUE, keep |-> keep] : keep \in {FieldKeys, {"a"}}} \cup
    {[success |-> FALSE, issues |-> is] :
        is \in {<<>>, <<Issue(<<"a">>, <<"e">>)>>, <<Issue(<<>>, <<"e">>)>>,
                <<Issue(<<"a">>, <<"e">>), Issue(<<"a">>, <<"f">>)>>}}

---------------------------------------------------------------------------
(* The state machine *)

NoForm == [none |-> TRUE]
NoSV == [called |-> FALSE]
NoCall == [op |-> "none"]

\* Before superValidate has run
InitV ==
    /\ form = NoForm
    /\ sv = NoSV
    /\ ret = NoRet
    /\ call = NoCall
    /\ form0 = NoForm
    /\ log = NoProps
    /\ calls = 0

\* superValidate(adapter, options?) on a fresh request
SuperValidateAdapter ==
    /\ sv = NoSV
    /\ \E ad \in Adapters, o \in SVOptionArgs, oc \in Outcomes :
        LET r == superValidate(ad, o, Undefined, oc) IN
        /\ sv' = r
        /\ form' = r.form
        /\ form0' = r.form
    /\ UNCHANGED <<ret, call, log, calls>>

\* superValidate(data, adapter, options?) on a fresh request
SuperValidateData ==
    /\ sv = NoSV
    /\ \E d \in DataArgs, ad \in Adapters, o \in SVOptionArgs, oc \in Outcomes :
        LET r == superValidate(d, ad, o, oc) IN
        /\ sv' = r
        /\ form' = r.form
        /\ form0' = r.form
    /\ UNCHANGED <<ret, call, log, calls>>

NextV == SuperValidateAdapter \/ SuperValidateData

SpecV == InitV /\ [][NextV]_vars

---------------------------------------------------------------------------
(* A validated form in the hands of a form action: message and setError *)

\* The superValidate calls the forms of Spec come from
FormAdapter == Adapter(DefaultsAB, FALSE, Given({"a", "b"}), {}, "vid")

FormRequests ==
    {superValidate(d, FormAdapter, Undefined, oc) :
        d \in {Undefined,
               [k |-> "formdata", id |-> Absent,
                fields |-> [key \in {"a", "b"} |-> IF key = "a" THEN "v" ELSE File]]},
        oc \in {[success |-> TRUE, keep |-> FieldKeys],
                [success |-> FALSE, issues |-> <<Issue(<<"a">>, <<"e">>)>>],
                [success |-> FALSE, issues |-> <<Issue(<<>>, <<"e">>)>>]}}

Init ==
    /\ sv \in FormRequests
    /\ form = sv.form
    /\ form0 = sv.form
    /\ ret = NoRet
    /\ call = NoCall
    /\ log = NoProps
    /\ calls = 0

\* The history of the calls addressed to each error location, after one more
\* call: the error arrays asked for since the last overwrite, whether a call
\* overwrote, and whether a call threw instead of returning
Logged(info, threw) ==
    IF info.loc = <<>> THEN log
    ELSE LET old == IF info.loc \in DOMAIN log THEN log[info.loc]
                    ELSE [errs |-> <<>>, overwritten |-> FALSE, threw |-> FALSE]
             new == IF threw THEN [old EXCEPT !.threw = TRUE]
                    ELSE [errs |-> IF info.overwrite THEN info.errs
                                   ELSE old.errs \o info.errs,
                          overwritten |-> old.overwritten \/ info.overwrite,
                          threw |-> old.threw]
         IN [q \in DOMAIN log \cup {info.loc} |-> IF q = info.loc THEN new ELSE log[q]]

\* The status the caller's options give, if any
StatusGiven(options) == IF options.k = "options" THEN options.status ELSE NoStatus

\* message(form, msg, options)
Message ==
    /\ calls < MaxCalls
    /\ \E msg \in Messages, o \in MessageOptionArgs :
        LET r == message(form, msg, o) IN
        /\ form' = r.form
        /\ ret' = r.ret
        /\ call' = [op |-> "message", message |-> msg, status |-> StatusGiven(o),
                    validBefore |-> form.valid]
    /\ calls' = calls + 1
    /\ UNCHANGED <<sv, form0, log>>

SetErrorDone(r, c) ==
    /\ form' = r.form
    /\ ret' = r.ret
    /\ call' = c
    /\ log' = Logged(r.info, r.ret.kind = "throw")

\* setError(form, path, error, options?)
SetErrorField ==
    /\ calls < MaxCalls
    /\ \E p \in PathArgs, e \in ErrorArgs, o \in SetErrorOptionArgs :
        SetErrorDone(setError(form, p, e, o),
                     [op |-> "setError", status |-> StatusGiven(o),
                      validBefore |-> form.valid])
    /\ calls' = calls + 1
    /\ UNCHANGED <<sv, form0>>

\* setError(form, error, options?)
SetErrorForm ==
    /\ calls < MaxCalls
    /\ \E e \in ErrorArgs, o \in SetErrorOptionArgs :
        SetErrorDone(setError(form, e, o, Undefined),
                     [op |-> "setError", status |-> StatusGiven(o),
                      validBefore |-> form.valid])
    /\ calls' = calls + 1
    /\ UNCHANGED <<sv, form0>>

Next == Message \/ SetErrorField \/ SetErrorForm

Spec == Init /\ [][Next]_vars

---------------------------------------------------------------------------
(* Claims about setError and message, checked under Spec *)

SetErrorReturned == call.op = "setError" /\ ret.kind # "throw"

\* The status the last call was to fail with: options.status when given, else 400
StatusAsked == IF call.status # NoStatus THEN call.status[1] ELSE 400

\* C1: whenever setError has returned, whatever its path, error and options,
\* form.valid is false and the return value is a failure carrying the form,
\* with the status the options give, and 400 when they give none.
C1_SetErrorInvalidates ==
    SetErrorReturned =>
        /\ form.valid = FALSE
        /\ ret.kind = "failure"
        /\ ret.form = form
        /\ ret.status = StatusAsked

\* C1's case: setError given status 500 has returned for a form that was valid
C1_Witness ==
    /\ SetErrorReturned
    /\ call.validBefore
    /\ call.status = Given(500)
    /\ ret.kind = "failure"

\* C2: after message, form.message is the message given; form.valid is false if
\* a status >= 400 was given and unchanged if none was; the result is the plain
\* {form} exactly when form.valid is then true, and else a failure carrying the
\* form with the status given, 400 when none was.
C2_MessageResult ==
    call.op = "message" =>
        /\ form.message = Given(call.message)
        /\ (call.status # NoStatus /\ call.status[1] >= 400 => form.valid = FALSE)
        /\ (call.status = NoStatus => form.valid = call.validBefore)
        /\ ret.form = form
        /\ (ret.kind = "plain") = form.valid
        /\ (~form.valid => ret.kind = "failure" /\ ret.status = StatusAsked)

\* C2's case: a message with no status on an already invalid form came back as
\* a 400 failure
C2_Witness ==
    /\ call.op = "message"
    /\ ~call.validBefore
    /\ call.status = NoStatus
    /\ ret.kind = "failure"
    /\ ret.status = 400

\* C3: the result of message is the plain {form} or a failure whose status is
\* at least 400, whatever status was passed.
C3_NoStatusBelow400 ==
    call.op = "message" =>
        \/ ret.kind = "plain"
        \/ ret.kind = "failure" /\ ret.status >= 400

\* q is a proper prefix of p
ProperPrefix(q, p) == Len(q) < Len(p) /\ SubSeq(p, 1, Len(q)) = q

\* The items of the array stored in the error tree at location p, if one is
ListAt(errors, p) ==
    IF IsArray(Lookup(errors, p)) THEN Lookup(errors, p).items ELSE <<>>

\* C5 as claimed: the list stored at every location that setError calls which
\* returned were addressed to is the concatenation, in call order, of the error
\* arrays of the calls addressed to it since the last one with overwrite: true.
C5_StoredIsConcatOfCalls ==
    \A p \in DOMAIN log :
        log[p].errs # <<>> =>
            /\ IsArray(Lookup(form.errors, p))
            /\ Lookup(form.errors, p).items = log[p].errs

\* Location p is a leaf of the form's shape as far as the calls and the
\* validation errors go: on the way to p the validated form stored objects or
\* nothing, no call addressed a proper prefix or a proper extension of p, and
\* every call addressed to p returned
LeafLocation(p) ==
    /\ \A i \in 1..(Len(p) - 1) :
            Lookup(form0.errors, SubSeq(p, 1, i)).k \in {"object", "undefined"}
    /\ \A q \in DOMAIN log : ~ProperPrefix(q, p) /\ ~ProperPrefix(p, q)
    /\ ~log[p].threw

\* C5, amended: for a leaf location p that calls addressed, the list stored at p is the list the
\* validated form stored there (if it stored one and no call to p has
\* overwritten) followed by the concatenation, in call order, of the error
\* arrays of the calls addressed to p since the last one with overwrite: true.
C5_StoredIsMergeOfCalls ==
    \A p \in DOMAIN log :
        LeafLocation(p) =>
            /\ IsArray(Lookup(form.errors, p))
            /\ Lookup(form.errors, p).items =
                    (IF log[p].overwritten THEN <<>> ELSE ListAt(form0.errors, p))
                    \o log[p].errs

\* C5's case: two calls without overwrite were addressed to the field a, which
\* validation had already given an error
C5_Witness ==
    /\ <<"a">> \in DOMAIN log
    /\ LeafLocation(<<"a">>)
    /\ ~log[<<"a">>].overwritten
    /\ Len(log[<<"a">>].errs) = 2
    /\ ListAt(form0.errors, <<"a">>) # <<>>

---------------------------------------------------------------------------
(* Claims about superValidate, checked under SpecV *)

\* The defaults a call is to use: options.defaults when given, else the adapter's
DefaultsAsked ==
    IF sv.options.k = "svoptions" /\ sv.options.defaults # Absent
        THEN sv.options.defaults[1]
        ELSE sv.validator.defaults

\* The call had falsy data and neither the errors nor the strict option
FalsyDataCall ==
    /\ sv.called
    /\ ~Truthy(sv.data)
    /\ sv.options.k = "svoptions" => sv.options.errors = Absent /\ ~sv.options.strict

\* C4 as claimed: with falsy data and no errors/strict option validate is not
\* invoked, and the result has posted = false, valid = false, errors = {} and
\* data equal to the defaults.
C4_FalsyDataGivesDefaults ==
    FalsyDataCall =>
        /\ ~sv.validated
        /\ form.posted = FALSE
        /\ form.valid = FALSE
        /\ form.errors = EmptyObj
        /\ form.data = DefaultsAsked

\* The record rec without the keys a schema with additionalProperties === false
\* does not list in its properties
WithinSchema(rec, jsonSchema) ==
    IF jsonSchema.closed
        THEN [key \in KeysOf(rec) \cap PropertyKeys(jsonSchema) |-> rec[key]]
        ELSE rec

\* C4, amended: ... and data equal to the defaults, less the keys that a schema
\* with additionalProperties === false does not list in its properties.
C4_FalsyDataGivesSchemaDefaults ==
    FalsyDataCall =>
        /\ ~sv.validated
        /\ form.posted = FALSE
        /\ form.valid = FALSE
        /\ form.errors = EmptyObj
        /\ form.data = WithinSchema(DefaultsAsked, sv.validator.jsonSchema)

\* C4's case: superValidate was called with null data and options.defaults
C4_Witness ==
    /\ FalsyDataCall
    /\ sv.data = Null
    /\ sv.options.k = "svoptions"
    /\ sv.options.defaults # Absent
    /\ form.data = DefaultsAsked

\* C6: when validation did not succeed, every top-level key of the defaults is
\* in result.data, for a schema whose additionalProperties is not false or
\* whose properties hold every key of the defaults.
C6_DataHasDefaults ==
    /\ sv.called
    /\ ~form.valid
    /\ \/ ~sv.validator.jsonSchema.closed
       \/ KeysOf(DefaultsAsked) \subseteq PropertyKeys(sv.validator.jsonSchema)
    => KeysOf(DefaultsAsked) \subseteq KeysOf(form.data)

\* C6's case: strict mode, posted data without the key b of the defaults, and
\* validation failed
C6_Witness ==
    /\ sv.called
    /\ IsStrict(sv.options)
    /\ sv.parsed.posted
    /\ sv.validated
    /\ ~form.valid
    /\ "b" \in KeysOf(DefaultsAsked)
    /\ "b" \notin KeysOf(sv.parsed.data.props)
    /\ "b" \in KeysOf(form.data)

\* addErrors as the claim states it: options.errors when given, else true in
\* strict mode, else true exactly when data was parsed from the input
AddErrorsAsked ==
    IF sv.options.k = "svoptions" /\ sv.options.errors # Absent
        THEN sv.options.errors[1]
        ELSE IF sv.options.k = "svoptions" /\ sv.options.strict
            THEN TRUE
            ELSE sv.parsed.data.k = "object"

\* C7: result.errors is {} whenever result.valid is true or addErrors is false,
\* and otherwise the mapping of the validator's issues onto the schema shape.
C7_ErrorsOnlyIfEnabled ==
    sv.called =>
        form.errors =
            IF form.valid \/ ~AddErrorsAsked
                THEN EmptyObj
                ELSE mapErrors(sv.status.issues, sv.validator.shape)

\* C7's case: errors: false, failing posted data: empty errors, valid = false
C7_Witness ==
    /\ sv.called
    /\ sv.options.k = "svoptions"
    /\ sv.options.errors = Given(FALSE)
    /\ sv.parsed.posted
    /\ sv.status.issues # <<>>
    /\ form.valid = FALSE
    /\ form.errors = EmptyObj

===========================================================================
